---------------------------- MODULE Spec2Model ----------------------------
(***************************************************************************)
(* regex-js: a regular expression is tokenized, folded into a parse tree,  *)
(* lowered to an NFA (Thompson's construction), converted to a DFA (subset *)
(* construction, dead-state handling) and then queried (IsValidWord,       *)
(* FindAll).  Model of src/regex.js, lines 1-1289.                         *)
(*                                                                         *)
(* Strings are sequences of one-character strings.  JavaScript null and    *)
(* undefined are the strings "null" and "undefined": that is what they     *)
(* become as property keys, and no one-character symbol can equal them.    *)
(***************************************************************************)
EXTENDS Integers, Sequences, FiniteSets, TLC

\* ------------------------------------------------------------------ bounds
\* Every pattern of at most MaxLen characters over PatternChars is an input.
MaxLen == 3
\* The words queried are all words of at most MaxWordLen symbols of WordChars.
MaxWordLen == 3
\* The repetition counts of the x{n}, x{n,n} family.
MaxCount == 3

Null == "null"
Undefined == "undefined"

Digits == {"0", "1", "2", "3", "4", "5", "6", "7", "8", "9"}

DigitVal(d) ==
    CASE d = "0" -> 0 [] d = "1" -> 1 [] d = "2" -> 2 [] d = "3" -> 3
      [] d = "4" -> 4 [] d = "5" -> 5 [] d = "6" -> 6 [] d = "7" -> 7
      [] d = "8" -> 8 [] d = "9" -> 9

DigitChar(n) == CHOOSE d \in Digits : DigitVal(d) = n

\* parseInt of a non-empty string of decimal digits.
RECURSIVE parseInt(_)
parseInt(s) ==
    IF Len(s) = 0 THEN 0
    ELSE 10 * parseInt(SubSeq(s, 1, Len(s) - 1)) + DigitVal(s[Len(s)])

\* ------------------------------------------------------------------ tokens
\* A token: type is "char", "meta" or "expr".  The value is a symbol (vk =
\* "sym", in sym), one Token (vk = "tok", the only element of kids) or an
\* Array of tokens (vk = "arr", in kids).
Token(type, value, repetitions) ==
    [type |-> type, vk |-> "sym", sym |-> value, kids |-> <<>>,
     repetitions |-> repetitions]

TokenOfToken(type, tok, repetitions) ==
    [type |-> type, vk |-> "tok", sym |-> "", kids |-> <<tok>>,
     repetitions |-> repetitions]

TokenOfArray(type, arr, repetitions) ==
    [type |-> type, vk |-> "arr", sym |-> "", kids |-> arr,
     repetitions |-> repetitions]

\* A thrown exception travelling through a token array.
Thrown(what) ==
    [type |-> "error", vk |-> "sym", sym |-> what, kids |-> <<>>,
     repetitions |-> <<1, 1>>]

HasThrown(tokens) == \E i \in 1..Len(tokens) : tokens[i].type = "error"

ChangeRepetitions(tokens, newRepetitions) ==
    [tokens EXCEPT ![Len(tokens)].repetitions = newRepetitions]

\* --------------------------------------------------------------- tokenizer
LexInit ==
    [tokens |-> <<>>, notCommand |-> FALSE, isTrue |-> FALSE,
     valueA |-> <<>>, valueB |-> <<>>, val |-> 0, threw |-> ""]

\* A bug: a quantifier sets the range of the first token, not of the last.
LexRepeat_first(lx, r) ==
    IF Len(lx.tokens) = 0 THEN [lx EXCEPT !.threw = "TypeError"]
    ELSE [lx EXCEPT !.tokens = [@ EXCEPT ![1].repetitions = r]]

\* tokens[tokens.length - 1].ChangeRepetitions(r): a TypeError when no token
\* precedes.
LexRepeat(lx, r) ==
    IF Len(lx.tokens) = 0 THEN [lx EXCEPT !.threw = "TypeError"]
    ELSE [lx EXCEPT !.tokens = ChangeRepetitions(lx.tokens, r)]

\* A bug: the bounds of a count are not compared.
LexCloseBrace_unchecked(lx) ==
    LET valA == IF lx.valueA = <<>> THEN 0 ELSE parseInt(lx.valueA)
        valB == IF lx.val = 0 THEN valA
                ELSE IF lx.valueB = <<>> THEN -1 ELSE parseInt(lx.valueB)
    IN  LexRepeat([lx EXCEPT !.isTrue = FALSE, !.valueA = <<>>,
                             !.valueB = <<>>, !.val = 0], <<valA, valB>>)

LexCloseBrace(lx) ==
    LET valA == IF lx.valueA = <<>> THEN 0 ELSE parseInt(lx.valueA)
        valB == IF lx.val = 0 THEN valA
                ELSE IF lx.valueB = <<>> THEN -1 ELSE parseInt(lx.valueB)
        reset == [lx EXCEPT !.isTrue = FALSE, !.valueA = <<>>,
                            !.valueB = <<>>, !.val = 0]
    IN  IF valB # -1 /\ valB < valA THEN [reset EXCEPT !.threw = "PARSE ERROR"]
        ELSE LexRepeat(reset, <<valA, valB>>)

\* One iteration of the loop of TokenizeRegex over the character value.
LexStep(lx, value) ==
    IF lx.isTrue THEN
        IF value \in Digits THEN
            IF lx.val = 0 THEN [lx EXCEPT !.valueA = Append(@, value)]
            ELSE [lx EXCEPT !.valueB = Append(@, value)]
        ELSE IF value = "," THEN
            IF lx.val = 0 THEN [lx EXCEPT !.val = 1]
            ELSE [lx EXCEPT !.threw = "ERROR"]
        ELSE IF value = "}" THEN LexCloseBrace(lx)
        ELSE [lx EXCEPT !.threw = "ERROR"]
    ELSE IF value = "\\" THEN [lx EXCEPT !.notCommand = TRUE]
    ELSE IF lx.notCommand THEN
        [lx EXCEPT !.tokens = Append(@, Token("char", value, <<1, 1>>)),
                   !.notCommand = FALSE]
    ELSE IF value \in {"[", "(", ")", "|"} THEN
        [lx EXCEPT !.tokens = Append(@, Token("meta", value, <<1, 1>>))]
    ELSE IF value = "{" THEN [lx EXCEPT !.isTrue = TRUE]
    ELSE IF value \in {"]", "}", ","} THEN [lx EXCEPT !.threw = "ERROR"]
    ELSE IF value = "*" THEN LexRepeat(lx, <<0, -1>>)
    ELSE IF value = "+" THEN LexRepeat(lx, <<1, -1>>)
    ELSE IF value = "?" THEN LexRepeat(lx, <<0, 1>>)
    ELSE [lx EXCEPT !.tokens = Append(@, Token("char", value, <<1, 1>>))]

RECURSIVE LexLoop(_, _, _)
LexLoop(lx, regex, i) ==
    IF lx.threw # "" \/ i > Len(regex) THEN lx
    ELSE LexLoop(LexStep(lx, regex[i]), regex, i + 1)

\* The tokens of the pattern, or <<Thrown(..)>>.
TokenizeRegex(regex) ==
    LET lx == LexLoop(LexInit, regex, 1)
    IN  IF lx.threw # "" THEN <<Thrown(lx.threw)>> ELSE lx.tokens

\* ------------------------------------------------------------ tree builder
CharsToExprs(tokens) ==
    [i \in 1..Len(tokens) |->
        IF tokens[i].type = "char"
        THEN TokenOfToken("expr", Token("char", tokens[i].sym, <<1, 1>>),
                          tokens[i].repetitions)
        ELSE tokens[i]]

RECURSIVE PushExpressions(_, _, _)
PushExpressions(tokens, n, token) ==
    IF n <= 0 THEN tokens ELSE PushExpressions(Append(tokens, token), n - 1, token)

\* GetEmptyOr without the empty alternative.
GetEmptyOr_noEmpty(orToken) == orToken

GetEmptyOr(orToken) ==
    TokenOfArray("expr",
        << TokenOfToken("expr", Token("char", Null, <<1, 1>>), <<1, 1>>),
           Token("meta", "|", <<1, 1>>),
           orToken >>,
        <<1, 1>>)

EqualRepetitions(repetitionsA, repetitionsB) ==
    repetitionsA[1] = repetitionsB[1] /\ repetitionsA[2] = repetitionsB[2]

HasRepetitions(token, repetitionOptions) ==
    \E i \in 1..Len(repetitionOptions) :
        EqualRepetitions(token.repetitions, repetitionOptions[i])

Mergeable == << <<0, -1>>, <<1, 1>> >>

\* One iteration (i >= 2) of the fold of MergeExpressions: newTokens is the
\* array built so far, token2 the incoming token.
MergeStep(newTokens, token2) ==
    LET m == Len(newTokens) IN
    IF m < 2 THEN Append(newTokens, token2)
    ELSE
      LET token0 == newTokens[m - 1]
          token1 == newTokens[m]
      IN
      IF token0.vk = "sym" /\ token0.sym = "(" /\ token1.type = "expr"
            /\ token2.vk = "sym" /\ token2.sym = ")"
      THEN Append(SubSeq(newTokens, 1, m - 2),
                  [token1 EXCEPT !.repetitions = token2.repetitions])
      ELSE IF token0.type = "expr" /\ token1.type = "meta"
                /\ token1.vk = "sym" /\ token1.sym = "|" /\ token2.type = "expr"
      THEN Append(SubSeq(newTokens, 1, m - 2),
                  TokenOfArray("expr",
                      <<token0, Token("meta", "|", <<1, 1>>), token2>>, <<1, 1>>))
      ELSE IF token1.type = "expr" /\ token2.type = "expr"
      THEN IF HasRepetitions(token1, Mergeable) /\ HasRepetitions(token2, Mergeable)
           THEN Append(SubSeq(newTokens, 1, m - 1),
                       TokenOfArray("expr", <<token1, token2>>, <<1, 1>>))
           ELSE Append(newTokens, token2)
      ELSE Append(newTokens, token2)

RECURSIVE MergeLoop(_, _, _)
MergeLoop(newTokens, tokens, i) ==
    IF i > Len(tokens) THEN newTokens
    ELSE MergeLoop(MergeStep(newTokens, tokens[i]), tokens, i + 1)

MergeExpressions(tokens) ==
    LET n == Len(tokens) IN
    IF n = 2 /\ tokens[1].type = "expr" /\ tokens[2].type = "expr"
    THEN IF HasRepetitions(tokens[1], Mergeable) /\ HasRepetitions(tokens[2], Mergeable)
         THEN << TokenOfArray("expr", <<tokens[1], tokens[2]>>, <<1, 1>>) >>
         ELSE tokens
    ELSE IF n < 3 THEN tokens
    ELSE MergeLoop(<<tokens[1], tokens[2]>>, tokens, 3)

\* The number of expand+merge passes before the loop is left.
MaxRepeats == 10

RECURSIVE TokenArrayToTreeLoop(_, _)
RECURSIVE ExpandLoop(_, _, _)

\* tokens[0] of a non-empty array, the thrown exception if there is one.
First(tokens) == IF HasThrown(tokens) THEN Thrown("ERROR") ELSE tokens[1]

\* The array newExpressions that ExpandExpressions builds for an expression
\* that is not a*; a token with no valid range throws.
NewExpressions(token) ==
    LET minimum == token.repetitions[1]
        maximum == token.repetitions[2]
        once    == [token EXCEPT !.repetitions = <<1, 1>>]
    IN
    IF minimum = 0 /\ maximum > 0 THEN
        PushExpressions(<<>>, maximum, GetEmptyOr(token))
    ELSE IF minimum > 0 /\ minimum = maximum THEN
        PushExpressions(<<>>, minimum, once)
    ELSE IF minimum > 0 /\ minimum < maximum THEN
        PushExpressions(PushExpressions(<<>>, minimum, once),
                        maximum - minimum, GetEmptyOr(once))
    ELSE IF minimum > 0 /\ maximum = -1 THEN
        Append(PushExpressions(<<>>, minimum, once),
               [token EXCEPT !.repetitions = <<0, -1>>])
    ELSE <<Thrown("ERROR")>>

\* The token is pushed as it is: it is no expression, or it is a*.
PushedAsIs(token) == token.type # "expr" \/ token.repetitions = <<0, -1>>

\* The replacement of one token in ExpandExpressions.
ExpandToken(token) ==
    IF PushedAsIs(token) THEN token
    ELSE First(TokenArrayToTreeLoop(NewExpressions(token), MaxRepeats))

ExpandLoop(newTokens, tokens, i) ==
    IF i > Len(tokens) THEN newTokens
    ELSE LET t == ExpandToken(tokens[i])
         IN  IF t.type = "error" THEN <<t>>
             ELSE ExpandLoop(Append(newTokens, t), tokens, i + 1)

ExpandExpressions(tokens) == ExpandLoop(<<>>, tokens, 1)

\* The loop of TokenArrayToTree run to 12 passes.
RECURSIVE TreePasses_more(_, _)
TreePasses_more(tokens, repeatsLeft) ==
    IF Len(tokens) = 1 \/ repeatsLeft <= -2 THEN <<tokens>>
    ELSE LET expanded == ExpandExpressions(tokens)
         IN  IF HasThrown(expanded) THEN <<tokens, expanded>>
             ELSE <<tokens>> \o TreePasses_more(MergeExpressions(expanded),
                                                repeatsLeft - 1)

\* The loop of TokenArrayToTree: the value of `tokens` at every test of the
\* loop condition, the last one being the array returned (or the exception
\* thrown by ExpandExpressions).
RECURSIVE TreePasses(_, _)
TreePasses(tokens, repeatsLeft) ==
    IF Len(tokens) = 1 \/ repeatsLeft <= 0 THEN <<tokens>>
    ELSE LET expanded == ExpandExpressions(tokens)
         IN  IF HasThrown(expanded) THEN <<tokens, expanded>>
             ELSE <<tokens>> \o TreePasses(MergeExpressions(expanded),
                                           repeatsLeft - 1)

TokenArrayToTreeLoop(tokens, repeatsLeft) ==
    LET passes == TreePasses(tokens, repeatsLeft) IN passes[Len(passes)]

TokenArrayToTree(tokens) == TokenArrayToTreeLoop(tokens, MaxRepeats)

ParseTokens(tokens) == TokenArrayToTree(CharsToExprs(tokens))

\* The parse tree of the pattern (an array of roots), or <<Thrown(..)>>.
BuildParseTree(regex) ==
    LET tokens == TokenizeRegex(regex)
    IN  IF HasThrown(tokens) THEN tokens ELSE ParseTokens(tokens)


\* --------------------------------------------------------------------- NFA
\* f with the key k set to v (a JavaScript property assignment).
Put(f, k, v) == [x \in (DOMAIN f) \cup {k} |-> IF x = k THEN v ELSE f[x]]

\* f without the key k (delete).
Delete(f, k) == [x \in (DOMAIN f) \ {k} |-> f[x]]

Includes(seq, x) == \E i \in 1..Len(seq) : seq[i] = x

Max(a, b) == IF a > b THEN a ELSE b

\* new NFA(): threw is the exception raised while the automaton was built.
NewNFA == [transitionTable |-> <<>>, end |-> 0, values |-> <<>>, threw |-> ""]

AddTransition(nfa, state0, value, state1) ==
    LET row0 == IF state0 \in DOMAIN nfa.transitionTable
                THEN nfa.transitionTable[state0] ELSE <<>>
        old  == IF value \in DOMAIN row0 THEN row0[value] ELSE <<>>
    IN  [nfa EXCEPT
            !.transitionTable = Put(@, state0, Put(row0, value, Append(old, state1))),
            !.end = Max(@, state1),
            !.values = IF Includes(@, value) THEN @ ELSE Append(@, value)]

Singular(value) == AddTransition(NewNFA, 0, value, 1)

\* The elements of seq at the indices of keep, in order.
Pick(seq, keep) ==
    [p \in 1..Cardinality(keep) |->
        seq[CHOOSE j \in keep : Cardinality({k \in keep : k < j}) = p - 1]]

\* AddTransitions(nfa, start): for every state i below nfa.end, the row
\* start + i is emptied and then receives, through AddTransition, every
\* transition of the row i of nfa, both ends moved by start.  The three loops
\* (states i, values j, targets k) are written out by their result:
\*   the rows      - the rows of nfa, moved;
\*   this.end      - the largest target added, if larger;
\*   this.values   - the values left out so far, in the order in which the
\*                   loops meet them: by the first row that has the value,
\*                   then by the position of the value in nfa.values.
\* nfa.transitionTable[i].hasOwnProperty throws when a state below nfa.end
\* has no row.
AddTransitions(this, nfa, start) ==
    LET copied  == 0..(nfa.end - 1)
        vals    == {nfa.values[j] : j \in 1..Len(nfa.values)}
        moved(row) ==
            [v \in (DOMAIN row) \cap vals |->
                [k \in 1..Len(row[v]) |-> start + row[v][k]]]
        table   == [q \in (DOMAIN this.transitionTable)
                              \cup {start + n : n \in copied} |->
                       IF q - start \in copied
                       THEN moved(nfa.transitionTable[q - start])
                       ELSE this.transitionTable[q]]
        rowTargets(row) ==
            UNION {{start + row[v][k] : k \in 1..Len(row[v])} :
                      v \in (DOMAIN row) \cap vals}
        targets == UNION {rowTargets(nfa.transitionTable[n]) : n \in copied}
        firstRow(j) == CHOOSE n \in copied :
                          /\ nfa.values[j] \in DOMAIN nfa.transitionTable[n]
                          /\ \A m \in 0..(n - 1) :
                                nfa.values[j] \notin DOMAIN nfa.transitionTable[m]
        met     == {j \in 1..Len(nfa.values) :
                      /\ ~Includes(this.values, nfa.values[j])
                      /\ \A k \in 1..(j - 1) : nfa.values[k] # nfa.values[j]
                      /\ \E n \in copied :
                            nfa.values[j] \in DOMAIN nfa.transitionTable[n]}
        before(j, k) == \/ firstRow(j) < firstRow(k)
                        \/ firstRow(j) = firstRow(k) /\ j < k
        added   == [p \in 1..Cardinality(met) |->
                      nfa.values[CHOOSE j \in met :
                          Cardinality({k \in met : before(k, j)}) = p - 1]]
    IN  IF this.threw # "" THEN this
        ELSE IF Len(nfa.values) > 0
                  /\ \E n \in copied : n \notin DOMAIN nfa.transitionTable
        THEN [this EXCEPT !.threw = "TypeError"]
        ELSE [this EXCEPT
                !.transitionTable = table,
                !.end = IF \E t \in targets : t > this.end
                        THEN CHOOSE t \in targets : \A u \in targets : u <= t
                        ELSE this.end,
                !.values = @ \o added]

And(nfaA, nfaB) ==
    LET n1 == AddTransitions(NewNFA, nfaA, 0)
        n2 == AddTransition(n1, nfaA.end, Null, nfaA.end + 1)
    IN  AddTransitions(n2, nfaB, nfaA.end + 1)

\* A bug: the alternation is built as the concatenation is.
Or_asAnd(nfaA, nfaB) == And(nfaA, nfaB)

Or(nfaA, nfaB) ==
    LET n1 == AddTransition(NewNFA, 0, Null, 1)
        n2 == AddTransitions(n1, nfaA, 1)
        n3 == AddTransition(n2, 0, Null, nfaA.end + 2)
        n4 == AddTransitions(n3, nfaB, nfaA.end + 2)
        n5 == AddTransition(n4, nfaA.end + 1, Null, nfaA.end + nfaB.end + 3)
    IN  AddTransition(n5, nfaA.end + nfaB.end + 2, Null, nfaA.end + nfaB.end + 3)

\* A star whose way back leads to state 0 instead of the start of the body.
Asterisk_toStart(nfa) ==
    LET n1 == AddTransition(NewNFA, 0, Null, 1)
        n2 == AddTransitions(n1, nfa, 1)
        n3 == AddTransition(n2, nfa.end + 1, Null, 0)
        n4 == AddTransition(n3, nfa.end + 1, Null, nfa.end + 2)
    IN  AddTransition(n4, 0, Null, nfa.end + 2)

Asterisk(nfa) ==
    LET n1 == AddTransition(NewNFA, 0, Null, 1)
        n2 == AddTransitions(n1, nfa, 1)
        n3 == AddTransition(n2, nfa.end + 1, Null, 1)
        n4 == AddTransition(n3, nfa.end + 1, Null, nfa.end + 2)
    IN  AddTransition(n4, 0, Null, nfa.end + 2)

NFAThrew(what) == [NewNFA EXCEPT !.threw = what]

\* An exception of a sub-construction leaves the whole construction.
Rethrow(a, b, ab) ==
    IF a.threw # "" THEN a ELSE IF b.threw # "" THEN b ELSE ab

RECURSIVE BuildNFA(_)
BuildNFA(token) ==
    IF token.type = "expr" /\ token.vk = "arr" THEN
        LET n  == Len(token.kids)
            a  == BuildNFA(token.kids[1])
            b  == BuildNFA(token.kids[n])
            ab == IF n = 2 THEN Rethrow(a, b, And(a, b))
                  ELSE IF n = 3 THEN Rethrow(a, b, Or(a, b))
                  ELSE NFAThrew("ERROR")
        IN  IF ab.threw = "" /\ token.repetitions[2] = -1 THEN Asterisk(ab) ELSE ab
    ELSE IF token.vk = "tok" THEN Singular(token.kids[1].sym)
    ELSE Singular(Undefined)


\* The states the epsilon transitions of q lead to, as a set.
EpsilonTargets(nfa, q) ==
    IF q \in DOMAIN nfa.transitionTable /\ Null \in DOMAIN nfa.transitionTable[q]
    THEN {nfa.transitionTable[q][Null][k] :
             k \in 1..Len(nfa.transitionTable[q][Null])}
    ELSE {}

\* The states reachable from S by zero or more epsilon transitions.
RECURSIVE EpsilonReach(_, _)
EpsilonReach(nfa, S) ==
    LET T == S \cup UNION {EpsilonTargets(nfa, q) : q \in S}
    IN  IF T = S THEN S ELSE EpsilonReach(nfa, T)

\* eClosure calls itself on the epsilon targets of every state it meets and
\* keeps no record of the states on the call stack: it never returns (the
\* call stack overflows) when a cycle of epsilon transitions can be reached.
eClosureOverflows(nfa, startStates) ==
    \E q \in EpsilonReach(nfa, {startStates[i] : i \in 1..Len(startStates)}) :
        \E r \in EpsilonTargets(nfa, q) : q \in EpsilonReach(nfa, {r})

\* reachable, with the elements of seq it does not include pushed in order.
RECURSIVE PushNew(_, _, _)
PushNew(reachable, seq, j) ==
    IF j > Len(seq) THEN reachable
    ELSE PushNew(IF Includes(reachable, seq[j]) THEN reachable
                 ELSE Append(reachable, seq[j]), seq, j + 1)

RECURSIVE eClosure(_, _)
RECURSIVE eClosureLoop(_, _, _, _)
eClosureLoop(nfa, startStates, reachable, i) ==
    IF i > Len(startStates) THEN reachable
    ELSE
      LET state == startStates[i]
          pushed == Append(reachable, state)
      IN
      IF state \notin DOMAIN nfa.transitionTable
      THEN eClosureLoop(nfa, startStates, pushed, i + 1)
      ELSE IF Null \notin DOMAIN nfa.transitionTable[state]
      THEN eClosureLoop(nfa, startStates, pushed, i + 1)
      ELSE LET r0 == nfa.transitionTable[state][Null]
               r1 == eClosure(nfa, r0)
           IN  eClosureLoop(nfa, startStates,
                            PushNew(PushNew(pushed, r0, 1), r1, 1), i + 1)

\* Defined when eClosureOverflows(nfa, startStates) is false.
eClosure(nfa, startStates) == eClosureLoop(nfa, startStates, <<>>, 1)

RECURSIVE MoveLoop(_, _, _, _, _)
MoveLoop(nfa, startStates, symbol, reachable, i) ==
    IF i > Len(startStates) THEN reachable
    ELSE LET state == startStates[i]
         IN  MoveLoop(nfa, startStates, symbol,
                 IF state \in DOMAIN nfa.transitionTable
                       /\ symbol \in DOMAIN nfa.transitionTable[state]
                 THEN reachable \o nfa.transitionTable[state][symbol]
                 ELSE reachable,
                 i + 1)

\* A bug: only the first of the start states is moved.
Move_first(nfa, startStates, symbol) ==
    MoveLoop(nfa, SubSeq(startStates, 1, 1), symbol, <<>>, 1)

Move(nfa, startStates, symbol) == MoveLoop(nfa, startStates, symbol, <<>>, 1)

\* ------------------------------------------------------ subset construction
\* value != null, for a symbol of nfa.values.
NotNull(value) == value # Null /\ value # Undefined

\* new SubsetConstruction, before Build.
NewSubsetConstruction ==
    [StateMapping |-> <<>>, transitionTable |-> <<>>, mappings |-> 0, threw |-> ""]

\* A search that compares the lengths only.
Matches_sameLength(memStates, nfaStates) == Len(memStates) = Len(nfaStates)

\* The search of GetMapping and of HasMapping: same length, and every element
\* of nfaStates included in the stored array.
Matches(memStates, nfaStates) ==
    /\ Len(memStates) = Len(nfaStates)
    /\ \A j \in 1..Len(nfaStates) : Includes(memStates, nfaStates[j])

HasMapping(sc, nfaStates) ==
    \E i \in 0..(sc.mappings - 1) : Matches(sc.StateMapping[i], nfaStates)

\* The subset construction after GetMapping(nfaStates), and the id returned.
GetMapping(sc, nfaStates) ==
    IF HasMapping(sc, nfaStates)
    THEN [sc |-> sc,
          id |-> CHOOSE i \in 0..(sc.mappings - 1) :
                    /\ Matches(sc.StateMapping[i], nfaStates)
                    /\ \A k \in 0..(i - 1) : ~Matches(sc.StateMapping[k], nfaStates)]
    ELSE [sc |-> [sc EXCEPT
                    !.StateMapping = Put(@, sc.mappings, nfaStates),
                    !.transitionTable = Put(@, sc.mappings, <<>>),
                    !.mappings = @ + 1],
          id |-> sc.mappings]

SetTransition(sc, state, symbol, mapping) ==
    [sc EXCEPT !.transitionTable =
        Put(@, state, Put(sc.transitionTable[state], symbol, mapping))]

\* The symbols of the subset construction: nfa.values without null.
Symbols(nfa) == SelectSeq(nfa.values, NotNull)

\* Build up to its call of Recursive: the subset construction, and the call
\* stack, which holds for every call of Recursive under way its state and the
\* index (from 1) of the symbol its loop has reached.
Build(nfa) ==
    IF eClosureOverflows(nfa, <<0>>)
    THEN [sc |-> [NewSubsetConstruction EXCEPT !.threw = "RangeError"],
          stack |-> <<>>]
    ELSE LET got == GetMapping(NewSubsetConstruction, eClosure(nfa, <<0>>))
         IN  [sc |-> got.sc, stack |-> <<[state |-> got.id, symbol |-> 1]>>]

\* One iteration of the loop of the innermost call of Recursive; the call
\* returns when its loop has passed the last symbol.
Recursive(nfa, sc, stack, symbols) ==
    LET top    == stack[Len(stack)]
        below  == SubSeq(stack, 1, Len(stack) - 1)
        state  == top.state
        symbol == symbols[top.symbol]
        move   == Move(nfa, sc.StateMapping[state], symbol)
        states == eClosure(nfa, move)
        got    == GetMapping(sc, states)
        set    == SetTransition(got.sc, state, symbol, got.id)
        on     == Append(below, [top EXCEPT !.symbol = @ + 1])
    IN  IF top.symbol > Len(symbols) THEN [sc |-> sc, stack |-> below]
        ELSE IF eClosureOverflows(nfa, move)
        THEN [sc |-> [sc EXCEPT !.threw = "RangeError"], stack |-> <<>>]
        ELSE IF Len(states) > 0 /\ ~HasMapping(sc, states)
        THEN [sc |-> set,
              stack |-> Append(on, [state |-> got.id, symbol |-> 1])]
        ELSE [sc |-> set, stack |-> on]

\* A bug: the start flag is set as the end flag is.
Flag_startOnEnd(sc, nfa) ==
    [sc EXCEPT !.transitionTable =
        [n \in DOMAIN sc.transitionTable |->
            IF n \in 0..(sc.mappings - 1)
            THEN Put(Put(sc.transitionTable[n],
                         "start", Includes(sc.StateMapping[n], nfa.end)),
                     "end", Includes(sc.StateMapping[n], nfa.end))
            ELSE sc.transitionTable[n]]]

\* The start and end flags set by the constructor after Build.
Flag(sc, nfa) ==
    [sc EXCEPT !.transitionTable =
        [i \in DOMAIN sc.transitionTable |->
            IF i \in 0..(sc.mappings - 1)
            THEN Put(Put(sc.transitionTable[i],
                         "start", Includes(sc.StateMapping[i], 0)),
                     "end", Includes(sc.StateMapping[i], nfa.end))
            ELSE sc.transitionTable[i]]]

\* A bug: the transitions a state lacks are set, the new state is not made.
AddDeadState_noSink(sc, symbols) ==
    LET syms == {symbols[j] : j \in {k \in 1..Len(symbols) : NotNull(symbols[k])}}
    IN  [sc EXCEPT !.transitionTable =
            [n \in DOMAIN sc.transitionTable |->
                [k \in (DOMAIN sc.transitionTable[n]) \cup syms |->
                    IF k \in DOMAIN sc.transitionTable[n]
                    THEN sc.transitionTable[n][k] ELSE sc.mappings]]]

\* A bug: the new state is given a transition to itself for every symbol.
AddDeadState_loop(sc, symbols) ==
    LET syms   == {symbols[j] : j \in {k \in 1..Len(symbols) : NotNull(symbols[k])}}
        lacks  == \E n \in 0..(sc.mappings - 1) :
                     \E s \in syms : s \notin DOMAIN sc.transitionTable[n]
        filled == [n \in DOMAIN sc.transitionTable |->
                     [k \in (DOMAIN sc.transitionTable[n]) \cup syms |->
                         IF k \in DOMAIN sc.transitionTable[n]
                         THEN sc.transitionTable[n][k] ELSE sc.mappings]]
    IN  IF lacks
        THEN [sc EXCEPT
                !.transitionTable =
                    Put(filled, sc.mappings,
                        [k \in {"start", "end"} \cup syms |->
                            IF k \in syms THEN sc.mappings ELSE FALSE]),
                !.mappings = @ + 1]
        ELSE sc

\* AddDeadState: every transition a state lacks leads to a new state, numbered
\* mappings, that is created when the first such transition is found.
AddDeadState(sc, symbols) ==
    LET syms   == {symbols[j] : j \in {k \in 1..Len(symbols) : NotNull(symbols[k])}}
        lacks  == \E i \in 0..(sc.mappings - 1) :
                     \E s \in syms : s \notin DOMAIN sc.transitionTable[i]
        filled == [i \in DOMAIN sc.transitionTable |->
                     IF i \in 0..(sc.mappings - 1)
                     THEN [k \in (DOMAIN sc.transitionTable[i]) \cup syms |->
                             IF k \in DOMAIN sc.transitionTable[i]
                             THEN sc.transitionTable[i][k] ELSE sc.mappings]
                     ELSE sc.transitionTable[i]]
    IN  IF lacks
        THEN [sc EXCEPT
                !.transitionTable =
                    Put(filled, sc.mappings, [start |-> FALSE, end |-> FALSE]),
                !.mappings = @ + 1]
        ELSE sc


\* ------------------------------------------------------------- dead states
\* Object.keys of a row of the DFA without 'start' and 'end', in the order
\* JavaScript enumerates them: the digits first, ascending, then the other
\* symbols in the order of insertion, which is the order of `symbols`.
OwnSymbols(row, symbols) ==
    LET digits == [n \in 1..10 |-> DigitChar(n - 1)]
        isDigitKey(k) == k \in Digits /\ k \in DOMAIN row
        isOtherKey(k) == k \notin Digits /\ k \in DOMAIN row
    IN  SelectSeq(digits, isDigitKey) \o SelectSeq(symbols, isOtherKey)

\* IsDeadStateRecursive: the answer, the array `checked` as the call leaves
\* it, and whether the call threw (a state without a row).
RECURSIVE IsDeadStateRecursive(_, _, _, _)
RECURSIVE IsDeadBranches(_, _, _, _, _, _)
IsDeadStateRecursive(transitionTable, state, checked, symbols) ==
    IF state \notin DOMAIN transitionTable
    THEN [dead |-> FALSE, checked |-> checked, threw |-> "TypeError"]
    ELSE
      LET row == transitionTable[state] IN
      IF "end" \in DOMAIN row /\ row["end"]
      THEN [dead |-> FALSE, checked |-> checked, threw |-> ""]
      ELSE IF Cardinality(DOMAIN row) = 2 \/ Includes(checked, state)
      THEN [dead |-> TRUE, checked |-> checked, threw |-> ""]
      ELSE IsDeadBranches(transitionTable, state, Append(checked, state),
                          symbols, OwnSymbols(row, symbols), 1)

IsDeadBranches(transitionTable, state, checked, symbols, keys, i) ==
    IF i > Len(keys)
    THEN [dead |-> TRUE, checked |-> checked, threw |-> ""]
    ELSE LET r == IsDeadStateRecursive(transitionTable,
                      transitionTable[state][keys[i]], checked, symbols)
         IN  IF r.threw # "" \/ ~r.dead THEN r
             ELSE IsDeadBranches(transitionTable, state, r.checked,
                                 symbols, keys, i + 1)

\* A search that looks at the state itself only.
IsDeadState_shallow(transitionTable, state, symbols) ==
    [dead    |-> ~transitionTable[state]["end"],
     checked |-> <<>>,
     threw   |-> ""]

IsDeadState(transitionTable, state, symbols) ==
    IsDeadStateRecursive(transitionTable, state, <<>>, symbols)

\* An iteration that leaves the edges into the removed state as they are.
RemoveRow_noRedirect(transitionTable, state, newState, n) ==
    LET symbols == (DOMAIN transitionTable[state]) \ {"start", "end"}
        row  == transitionTable[n]
        moved(v) == IF v > state THEN v - 1 ELSE v
        row1 == [k \in DOMAIN row |->
                    IF k \in symbols THEN moved(row[k]) ELSE row[k]]
        tt1  == Put(transitionTable, n, row1)
    IN  IF n > state THEN Put(tt1, n - 1, row1) ELSE tt1

\* One iteration of the loop over i of RemoveState.
RemoveRow(transitionTable, state, newState, i) ==
    LET symbols == (DOMAIN transitionTable[state]) \ {"start", "end"}
        row  == transitionTable[i]
        moved(v) == LET w == IF v = state THEN newState ELSE v
                    IN  IF w > state THEN w - 1 ELSE w
        row1 == [k \in DOMAIN row |->
                    IF k \in symbols THEN moved(row[k]) ELSE row[k]]
        tt1  == Put(transitionTable, i, row1)
    IN  IF i > state THEN Put(tt1, i - 1, row1) ELSE tt1

RECURSIVE RemoveLoop(_, _, _, _, _)
RemoveLoop(transitionTable, state, newState, i, mappings) ==
    IF i >= mappings THEN transitionTable
    ELSE RemoveLoop(RemoveRow(transitionTable, state, newState, i),
                    state, newState, i + 1, mappings)

RemoveState(sc, state, newState) ==
    IF \E i \in {state} \cup 0..(sc.mappings - 1) : i \notin DOMAIN sc.transitionTable
    THEN [sc EXCEPT !.threw = "TypeError"]
    ELSE [sc EXCEPT
            !.transitionTable =
                Delete(RemoveLoop(@, state, newState, 0, sc.mappings),
                       sc.mappings - 1),
            !.mappings = @ - 1]

\* A bug: a dead state is found and left in place.
SimplifyDeadState_keep(sc, i, symbols) ==
    LET r == IsDeadState(sc.transitionTable, i, symbols)
    IN  IF r.threw # "" THEN [sc EXCEPT !.threw = r.threw] ELSE sc

\* One iteration of the loop of SimplifyDeadStates, for the index i.
SimplifyDeadState(sc, i, symbols) ==
    LET r == IsDeadState(sc.transitionTable, i, symbols)
    IN  IF r.threw # "" THEN [sc EXCEPT !.threw = r.threw]
        ELSE IF r.dead THEN RemoveState(sc, i, sc.mappings - 1)
        ELSE sc

\* ------------------------------------------------------------- DFA matcher
\* word[i] of the code is word[i + 1] here: indices are counted from 0.
RECURSIVE IsValidWordLoop(_, _, _, _)
IsValidWordLoop(transitionTable, word, state, i) ==
    IF i >= Len(word)
    THEN IF state \notin DOMAIN transitionTable
         THEN [ret |-> FALSE, threw |-> "TypeError"]
         ELSE [ret |-> "end" \in DOMAIN transitionTable[state]
                          /\ transitionTable[state]["end"],
               threw |-> ""]
    ELSE IF state \notin DOMAIN transitionTable
              \/ word[i + 1] \notin DOMAIN transitionTable[state]
    THEN [ret |-> FALSE, threw |-> ""]
    ELSE IsValidWordLoop(transitionTable, word,
                         transitionTable[state][word[i + 1]], i + 1)

\* A bug: the walk starts at the second symbol of the word.
IsValidWord_skipFirst(transitionTable, word) ==
    IsValidWordLoop(transitionTable, word, 0, 1)

IsValidWord(transitionTable, word) == IsValidWordLoop(transitionTable, word, 0, 0)

\* A scan that takes every state that is not accepting for a dead state.
RECURSIVE ValidWordLengthLoop_eager(_, _, _, _, _, _)
ValidWordLengthLoop_eager(transitionTable, word, symbols, state, lastValid, n) ==
    IF n >= Len(word) THEN [ret |-> lastValid, threw |-> ""]
    ELSE IF state \notin DOMAIN transitionTable
              \/ word[n + 1] \notin DOMAIN transitionTable[state]
    THEN [ret |-> lastValid, threw |-> ""]
    ELSE
      LET next == transitionTable[state][word[n + 1]] IN
      IF ~transitionTable[next]["end"] THEN [ret |-> lastValid, threw |-> ""]
      ELSE ValidWordLengthLoop_eager(transitionTable, word, symbols, next, n, n + 1)

RECURSIVE ValidWordLengthLoop(_, _, _, _, _, _)
ValidWordLengthLoop(transitionTable, word, symbols, state, lastValid, i) ==
    IF i >= Len(word) THEN [ret |-> lastValid, threw |-> ""]
    ELSE IF state \notin DOMAIN transitionTable
              \/ word[i + 1] \notin DOMAIN transitionTable[state]
    THEN [ret |-> lastValid, threw |-> ""]
    ELSE
      LET next == transitionTable[state][word[i + 1]]
          r    == IsDeadState(transitionTable, next, symbols)
      IN
      IF r.threw # "" THEN [ret |-> lastValid, threw |-> r.threw]
      ELSE IF r.dead THEN [ret |-> lastValid, threw |-> ""]
      ELSE ValidWordLengthLoop(transitionTable, word, symbols, next,
               IF transitionTable[next]["end"] THEN i ELSE lastValid, i + 1)

\* A bug: the scan stops at the first accepting state it reaches (first
\* match instead of longest match).
ValidWordLength_first(transitionTable, word, symbols, start) ==
    LET ends == {j \in start..(Len(word) - 1) :
                    IsValidWord(transitionTable, SubSeq(word, start + 1, j + 1)).ret}
    IN  [ret |-> IF ends = {} THEN -1
                 ELSE CHOOSE j \in ends : \A k \in ends : j <= k,
         threw |-> ""]

ValidWordLength(transitionTable, word, symbols, start) ==
    ValidWordLengthLoop(transitionTable, word, symbols, 0, -1, start)

\* A bug: every match is pushed, also one that valid already includes.
PushValid_always(valid, w) == Append(valid, w)

\* if (!valid.includes(w)) valid.push(w)
PushValid(valid, w) == IF Includes(valid, w) THEN valid ELSE Append(valid, w)

\* FindAll: `valid` is the array returned; `scans` lists, in order, the calls
\* ValidWordLength(word, i) made and their results x, as <<i, x>>.
RECURSIVE FindAllLoop(_, _, _, _, _, _)
FindAllLoop(transitionTable, word, symbols, valid, scans, i) ==
    IF i >= Len(word) THEN [valid |-> valid, scans |-> scans, threw |-> ""]
    ELSE
      LET r == ValidWordLength(transitionTable, word, symbols, i)
          x == r.ret
          w == SubSeq(word, i + 1, x + 1)
      IN
      IF r.threw # "" THEN [valid |-> valid, scans |-> scans, threw |-> r.threw]
      ELSE IF x # -1
      THEN FindAllLoop(transitionTable, word, symbols, PushValid(valid, w),
                       Append(scans, <<i, x>>), x + 1)
      ELSE FindAllLoop(transitionTable, word, symbols, valid,
                       Append(scans, <<i, x>>), i + 1)

FindAll(transitionTable, word, symbols) ==
    FindAllLoop(transitionTable, word, symbols, <<>>, <<>>, 0)


\* ------------------------------------------------------------------ inputs
\* The characters of the short patterns and the literal symbols.
PatternChars == {"a", "b", "(", ")", "|", "*", "+", "?"}
Literals == {"a", "b", "1"}

\* All sequences over S of length at most n.
RECURSIVE SeqsUpTo(_, _)
SeqsUpTo(S, n) ==
    IF n = 0 THEN {<<>>}
    ELSE LET shorter == SeqsUpTo(S, n - 1)
         IN  shorter \cup {Append(s, c) : s \in shorter, c \in S}

\* The string of n copies of the character c.
Repeat(c, n) == [k \in 1..n |-> c]

\* The decimal digits of a count below 10.
Count(n) == <<DigitChar(n)>>

\* The patterns of the scenarios: x|y, x{n}, x{n,n}, and the named ones.
ScenarioPatterns ==
    {<<x, "|", y>> : x \in Literals, y \in Literals}
    \cup {<<x, "{">> \o Count(n) \o <<"}">> : x \in Literals, n \in 0..MaxCount}
    \cup {<<x, "{">> \o Count(n) \o <<",">> \o Count(n) \o <<"}">> :
            x \in Literals, n \in 0..MaxCount}
    \cup { <<"(", "a", "|", "b", ")", "+">>,
           <<"(", "a", "|", "b", ")", "*">>,
           <<"(", "a", "|", "b", ")", "+", "c">>,
           <<"(", "a", "|", "b", ")", "*", "a", "b">>,
           <<"a", "?">>,
           <<"a", "{", "2", ",", "4", "}">>,
           <<"b", "a", "{", "2", ",", "4", "}">>,
           <<"a", "|", "a", "b">>,
           <<"a", "|", "(", "a", "b", ")">>,
           <<"(", "a", "b", "|", "a", ")", "*", "b">>,
           <<"a", "?", "b", "+", "a">>,
           <<"(", "a", "|", "b", ")", "?", "a", "{", "2", ",", "3", "}", "b", "*">>,
           <<"(", "a", "?", "|", "b", ")", "*">> }

\* The strings a repetition count is written with: none, or one digit.
CountStrings == {<<>>} \cup {Count(n) : n \in 0..MaxCount}

\* x{A}, x{A,B} and x{A,B,C} for a literal x and all count strings.
CountPatterns ==
    {<<x, "{">> \o A \o <<"}">> : x \in Literals, A \in CountStrings}
    \cup {<<x, "{">> \o A \o <<",">> \o B \o <<"}">> :
            x \in Literals, A \in CountStrings, B \in CountStrings}
    \cup {<<x, "{">> \o A \o <<",">> \o B \o <<",">> \o C \o <<"}">> :
            x \in {"a"}, A \in CountStrings, B \in CountStrings, C \in CountStrings}

\* Every character the tokenizer tells apart, and the literals.
EscapeChars ==
    PatternChars \cup Literals \cup {"\\", "{", "}", ",", "[", "]"}

\* \c alone and after a literal, for every character c.
EscapePatterns ==
    {<<"\\", c>> : c \in EscapeChars} \cup {<<"a", "\\", c>> : c \in EscapeChars}

\* xy|z and x|yz for all literals.
PrecedencePatterns ==
    {<<x, y, "|", z>> : x \in Literals, y \in Literals, z \in Literals}
    \cup {<<x, "|", y, z>> : x \in Literals, y \in Literals, z \in Literals}

\* Sub-patterns E, and the patterns (E).
ParenBodies ==
    { <<"a">>, <<"a", "b">>, <<"a", "|", "b">>, <<"(", "a", ")">>,
      <<"(", "a", "|", "b", ")">>, <<"(", "a", "b", ")", "*">>,
      <<"(", "a", "|", "b", ")", "*">>, <<"(", "a", "|", "b", ")", "*", "a">> }

ParenPatterns == ParenBodies \cup {<<"(">> \o E \o <<")">> : E \in ParenBodies}

\* The counts {m,n} with 0 < m < n.
ProperRanges ==
    UNION {{<<m, n>> : m \in 1..(n - 1)} : n \in 2..MaxCount}

\* ba{m,n} and a{m,n}b for the proper ranges, and a group with a range.
RangePatterns ==
    {<<"b", "a", "{">> \o Count(r[1]) \o <<",">> \o Count(r[2]) \o <<"}">> :
        r \in ProperRanges}
    \cup {<<"a", "{">> \o Count(r[1]) \o <<",">> \o Count(r[2]) \o <<"}", "b">> :
        r \in ProperRanges}
    \cup {<<"b", "(", "a", "|", "b", ")", "{", "1", ",", "2", "}">>}

\* Patterns that end inside a count: a{A and a{A,B.
OpenCounts ==
    {<<"a", "{">> \o A : A \in CountStrings}
    \cup {<<"a", "{">> \o A \o <<",">> \o B :
            A \in CountStrings, B \in {<<>>, Count(MaxCount)}}

Patterns ==
    SeqsUpTo(PatternChars, MaxLen) \cup ScenarioPatterns
        \cup CountPatterns \cup EscapePatterns
        \cup PrecedencePatterns \cup ParenPatterns
        \cup RangePatterns \cup OpenCounts

\* The words of the scenarios that the bounded words do not include.
ScenarioWords ==
    { <<"c">>, <<"a", "b", "c">>, <<"a", "a", "a", "a">>,
      <<"a", "a", "a", "a", "a">>, <<"a", "a", "b", "a", "b", "b">> }

\* b followed by a's, and a's followed by b.
RangeWords ==
    {<<"b">> \o Repeat("a", k) : k \in 0..(MaxCount + 1)}
    \cup {Repeat("a", k) \o <<"b">> : k \in 0..(MaxCount + 1)}

Words == SeqsUpTo(Literals, MaxWordLen) \cup ScenarioWords \cup RangeWords

\* ------------------------------------------------------------------- state
VARIABLES
    regex,          \* the pattern given to new Regex
    pc,             \* how far AddRegex has come; "done" once this.dfa is set
    tokens,         \* the array returned by TokenizeRegex
    regexTree,      \* the array returned by ParseTokens
    nfa,            \* the NFA returned by BuildNFA
    StateMapping,   \* SubsetConstruction: DFA state id -> array of NFA states
    dfa,            \* SubsetConstruction: the DFA being built, then this.dfa
    mappings,       \* SubsetConstruction: the number of DFA states
    stack,          \* Build: the calls of Recursive under way
    i,              \* the loop index of SimplifyDeadStates
    op,             \* the last query made: "IsValidWord", "FindAll" or "none"
    word,           \* its argument
    ret,            \* the value IsValidWord returned
    valid,          \* the array FindAll returned
    scans,          \* the calls of ValidWordLength FindAll made, as <<i, x>>
    threw           \* the exception of the last step, "" when it returned

vars == <<regex, pc, tokens, regexTree, nfa, StateMapping, dfa, mappings, stack, i,
          op, word, ret, valid, scans, threw>>

NewDFA == [transitionTable |-> <<>>]

Init ==
    /\ regex \in Patterns
    /\ pc = "start"
    /\ tokens = <<>>
    /\ regexTree = <<>>
    /\ nfa = NewNFA
    /\ StateMapping = <<>>
    /\ dfa = NewDFA
    /\ mappings = 0
    /\ stack = <<>>
    /\ i = 0
    /\ op = "none"
    /\ word = <<>>
    /\ ret = FALSE
    /\ valid = <<>>
    /\ scans = <<>>
    /\ threw = ""

\* The subset construction as one record, and back.
This == [StateMapping |-> StateMapping, transitionTable |-> dfa.transitionTable,
         mappings |-> mappings, threw |-> ""]

Becomes(sc, next) ==
    /\ StateMapping' = sc.StateMapping
    /\ dfa' = [transitionTable |-> sc.transitionTable]
    /\ mappings' = sc.mappings
    /\ threw' = sc.threw
    /\ pc' = IF sc.threw # "" THEN "error" ELSE next

\* BuildParseTree, first half: TokenizeRegex.
Tokenize ==
    /\ pc = "start"
    /\ LET t == TokenizeRegex(regex)
       IN  IF HasThrown(t)
           THEN /\ pc' = "error"
                /\ threw' = t[1].sym
                /\ UNCHANGED tokens
           ELSE /\ pc' = "tokenized"
                /\ tokens' = t
                /\ UNCHANGED threw
    /\ UNCHANGED <<regex, regexTree, nfa, StateMapping, dfa, mappings, stack, i,
                   op, word, ret, valid, scans>>

\* BuildParseTree, second half: ParseTokens.
Parse ==
    /\ pc = "tokenized"
    /\ LET t == ParseTokens(tokens)
       IN  IF HasThrown(t)
           THEN /\ pc' = "error"
                /\ threw' = t[1].sym
                /\ UNCHANGED regexTree
           ELSE /\ pc' = "parsed"
                /\ regexTree' = t
                /\ UNCHANGED threw
    /\ UNCHANGED <<regex, tokens, nfa, StateMapping, dfa, mappings, stack, i,
                   op, word, ret, valid, scans>>

\* AddRegex: this.BuildNFA(regexTree[0]); regexTree[0] of an empty array is
\* undefined and token.type throws.
Lower ==
    /\ pc = "parsed"
    /\ LET n == IF Len(regexTree) = 0 THEN NFAThrew("TypeError")
                ELSE BuildNFA(regexTree[1])
       IN  IF n.threw # ""
           THEN /\ pc' = "error"
                /\ threw' = n.threw
                /\ UNCHANGED nfa
           ELSE /\ pc' = "nfa"
                /\ nfa' = n
                /\ UNCHANGED threw
    /\ UNCHANGED <<regex, tokens, regexTree, StateMapping, dfa, mappings, stack, i,
                   op, word, ret, valid, scans>>

\* new SubsetConstruction(nfa): this.Build(nfa), up to its call of Recursive.
Construct ==
    /\ pc = "nfa"
    /\ LET b == Build(nfa)
       IN  /\ Becomes(b.sc, "build")
           /\ stack' = b.stack
    /\ UNCHANGED <<regex, tokens, regexTree, nfa, i, op, word, ret, valid, scans>>

\* Build: one iteration of the loop of the innermost call of Recursive.
Explore ==
    /\ pc = "build"
    /\ stack # <<>>
    /\ LET r == Recursive(nfa, This, stack, Symbols(nfa))
       IN  /\ Becomes(r.sc, "build")
           /\ stack' = r.stack
    /\ UNCHANGED <<regex, tokens, regexTree, nfa, i, op, word, ret, valid, scans>>

\* Build: the outermost call of Recursive has returned.
Built ==
    /\ pc = "build"
    /\ stack = <<>>
    /\ pc' = "built"
    /\ UNCHANGED <<regex, tokens, regexTree, nfa, StateMapping, dfa, mappings, stack,
                   i, op, word, ret, valid, scans, threw>>

\* new SubsetConstruction(nfa): the start and end flags.
SetFlags ==
    /\ pc = "built"
    /\ Becomes(Flag(This, nfa), "flagged")
    /\ UNCHANGED <<regex, tokens, regexTree, nfa, stack, i, op, word, ret, valid, scans>>

\* new SubsetConstruction(nfa): this.AddDeadState(nfa.values).
AddDead ==
    /\ pc = "flagged"
    /\ Becomes(AddDeadState(This, nfa.values), "simplify")
    /\ i' = 0
    /\ UNCHANGED <<regex, tokens, regexTree, nfa, stack, op, word, ret, valid, scans>>

\* SimplifyDeadStates: one iteration of its loop.
Simplify ==
    /\ pc = "simplify"
    /\ i < mappings - 1
    /\ Becomes(SimplifyDeadState(This, i, Symbols(nfa)), "simplify")
    /\ i' = i + 1
    /\ UNCHANGED <<regex, tokens, regexTree, nfa, stack, op, word, ret, valid, scans>>

\* SimplifyDeadStates returns, the constructor returns this.dfa.
Finish ==
    /\ pc = "simplify"
    /\ ~(i < mappings - 1)
    /\ pc' = "done"
    /\ UNCHANGED <<regex, tokens, regexTree, nfa, StateMapping, dfa, mappings, stack,
                   i, op, word, ret, valid, scans, threw>>

\* Regex.prototype.IsValidWord(w).
CallIsValidWord ==
    /\ pc = "done"
    /\ op = "none"
    /\ \E w \in Words :
        LET r == IsValidWord(dfa.transitionTable, w)
        IN  /\ op' = "IsValidWord"
            /\ word' = w
            /\ ret' = r.ret
            /\ threw' = r.threw
            /\ valid' = <<>>
            /\ scans' = <<>>
    /\ UNCHANGED <<regex, pc, tokens, regexTree, nfa, StateMapping, dfa, mappings,
                   stack, i>>

\* Regex.prototype.FindAll(w).
CallFindAll ==
    /\ pc = "done"
    /\ op = "none"
    /\ \E w \in Words :
        LET r == FindAll(dfa.transitionTable, w, Symbols(nfa))
        IN  /\ op' = "FindAll"
            /\ word' = w
            /\ valid' = r.valid
            /\ scans' = r.scans
            /\ threw' = r.threw
            /\ ret' = FALSE
    /\ UNCHANGED <<regex, pc, tokens, regexTree, nfa, StateMapping, dfa, mappings,
                   stack, i>>

\* The caller has taken the result of the query.
Return ==
    /\ pc = "done"
    /\ op # "none"
    /\ op' = "none"
    /\ word' = <<>>
    /\ ret' = FALSE
    /\ valid' = <<>>
    /\ scans' = <<>>
    /\ threw' = ""
    /\ UNCHANGED <<regex, pc, tokens, regexTree, nfa, StateMapping, dfa, mappings,
                   stack, i>>

Next ==
    \/ Tokenize
    \/ Parse
    \/ Lower
    \/ Construct
    \/ Explore
    \/ Built
    \/ SetFlags
    \/ AddDead
    \/ Simplify
    \/ Finish
    \/ CallIsValidWord
    \/ CallFindAll
    \/ Return

Spec == Init /\ [][Next]_vars


\* ------------------------------------------------------------------ claims
\* The finished DFA accepts the word w.
Accepts(w) == IsValidWord(dfa.transitionTable, w).ret

\* The states an NFA reaches from the state q by one transition on c.
SymbolTargets(n, q, c) ==
    IF q \in DOMAIN n.transitionTable /\ c \in DOMAIN n.transitionTable[q]
    THEN {n.transitionTable[q][c][k] : k \in 1..Len(n.transitionTable[q][c])}
    ELSE {}

\* The states in which a run of the NFA can be once it has started in a
\* state of S and consumed w from its k-th symbol on.
RECURSIVE StatesAfter(_, _, _, _)
StatesAfter(n, S, w, k) ==
    IF k > Len(w) THEN S
    ELSE StatesAfter(n,
             EpsilonReach(n, UNION {SymbolTargets(n, q, w[k]) : q \in S}),
             w, k + 1)

\* The NFA has a run from the state 0 to the state end that consumes w.
HasRun(n, w) == n.end \in StatesAfter(n, EpsilonReach(n, {0}), w, 1)

OverAlphabet(w) == \A k \in 1..Len(w) : Includes(Symbols(nfa), w[k])

\* C1: the finished DFA (after AddDeadState and SimplifyDeadStates) accepts a
\* word over the non-epsilon alphabet of the NFA exactly when the NFA has a
\* run from state 0 to nfa.end that consumes the word.
C1_SameLanguage ==
    (pc = "done" /\ op = "IsValidWord" /\ OverAlphabet(word)) =>
        (ret <=> HasRun(nfa, word))

StarAB == <<"(", "a", "|", "b", ")", "*", "a", "b">>

C1_Witness ==
    /\ pc = "done"
    /\ regex = StarAB
    /\ op = "IsValidWord"
    /\ word = <<"b", "a", "b">>
    /\ ret
    /\ HasRun(nfa, word)
    /\ ~HasRun(nfa, <<"a", "b", "a">>)

\* The states of the DFA flagged start.
StartStates ==
    {q \in DOMAIN dfa.transitionTable : dfa.transitionTable[q]["start"]}

\* The state the DFA is in after it has walked from q over w, from the k-th
\* symbol on; -1 once a transition is absent.
RECURSIVE Walk(_, _, _)
Walk(q, w, k) ==
    IF q = -1 \/ k > Len(w) THEN q
    ELSE IF w[k] \notin DOMAIN dfa.transitionTable[q] THEN -1
    ELSE Walk(dfa.transitionTable[q][w[k]], w, k + 1)

WalkAccepts(q, w) ==
    LET last == Walk(q, w, 1)
    IN  last # -1 /\ dfa.transitionTable[last]["end"]

\* C2: IsValidWord(w) is true exactly when the walk from the state flagged
\* start over w meets no absent transition and ends in a state flagged end;
\* it is false as soon as a transition is absent.
C2_WalkFromStart ==
    (pc = "done" /\ op = "IsValidWord") =>
        /\ StartStates # {}
        /\ \A q \in StartStates : ret = WalkAccepts(q, word)

C2_Witness ==
    /\ pc = "done"
    /\ op = "IsValidWord"
    /\ regex = StarAB
    /\ word = <<"a", "a", "b">>
    /\ ret
    /\ ~WalkAccepts(CHOOSE q \in StartStates : TRUE, <<"a", "1", "b">>)

\* C3: for all literal symbols x and y the matcher of x|y accepts the words
\* "x" and "y" and no other word; it rejects the empty word.
C3_Alternation ==
    \A x \in Literals, y \in Literals :
        (pc = "done" /\ regex = <<x, "|", y>>) =>
            \A w \in Words : Accepts(w) <=> w \in {<<x>>, <<y>>}

C3_Witness ==
    /\ pc = "done"
    /\ regex = <<"a", "|", "1">>
    /\ op = "IsValidWord"
    /\ word = <<"1">>
    /\ ret
    /\ ~Accepts(<<>>)

\* C4: the matcher of (a|b)+ accepts "a", "ab" and "bba" and rejects "", "c"
\* and "abc".
C4_OneOrMore ==
    (pc = "done" /\ regex = <<"(", "a", "|", "b", ")", "+">>) =>
        /\ Accepts(<<"a">>)
        /\ Accepts(<<"a", "b">>)
        /\ Accepts(<<"b", "b", "a">>)
        /\ ~Accepts(<<>>)
        /\ ~Accepts(<<"c">>)
        /\ ~Accepts(<<"a", "b", "c">>)

\* C5: the matcher of a? accepts "" and "a" and rejects "aa".
C5_Optional ==
    (pc = "done" /\ regex = <<"a", "?">>) =>
        /\ Accepts(<<>>)
        /\ Accepts(<<"a">>)
        /\ ~Accepts(<<"a", "a">>)

\* C6: the matcher of a{2,4} accepts "aa", "aaa" and "aaaa" and rejects "a"
\* and "aaaaa".
C6_Range ==
    (pc = "done" /\ regex = <<"a", "{", "2", ",", "4", "}">>) =>
        /\ Accepts(Repeat("a", 2))
        /\ Accepts(Repeat("a", 3))
        /\ Accepts(Repeat("a", 4))
        /\ ~Accepts(Repeat("a", 1))
        /\ ~Accepts(Repeat("a", 5))

\* C7: for every n >= 0 and literal x the matcher of x{n} and of x{n,n}
\* accepts the word of n symbols x and no other word.
C7_ExactCount ==
    \A x \in Literals, n \in 0..MaxCount :
        (/\ pc = "done"
         /\ regex \in {<<x, "{">> \o Count(n) \o <<"}">>,
                       <<x, "{">> \o Count(n) \o <<",">> \o Count(n) \o <<"}">>}) =>
            \A w \in Words \cup {Repeat(x, n)} : Accepts(w) <=> w = Repeat(x, n)

\* The symbols of the queried word from the index a to the index b, counted
\* from 0.
Sub(a, b) == SubSeq(word, a + 1, b + 1)

\* The last index of the longest non-empty substring starting at the index a
\* that the DFA accepts, -1 if it accepts none.
Longest(a) ==
    LET ends == {b \in a..(Len(word) - 1) : Accepts(Sub(a, b))}
    IN  IF ends = {} THEN -1 ELSE CHOOSE b \in ends : \A c \in ends : c <= b

\* C8: FindAll scans from the index 0; a scan at the index a finds the longest
\* accepted substring that starts at a, and records it; the next scan starts
\* right after that substring, or at a + 1 when there is none; the scans go
\* on to the end of the text.
C8_LeftmostLongest ==
    (pc = "done" /\ op = "FindAll" /\ threw = "") =>
        /\ (Len(word) > 0) => (Len(scans) > 0 /\ scans[1][1] = 0)
        /\ (Len(word) = 0) => (scans = <<>>)
        /\ \A p \in 1..Len(scans) :
            LET a == scans[p][1]
                x == scans[p][2]
                next == IF x # -1 THEN x + 1 ELSE a + 1
            IN  /\ x = Longest(a)
                /\ (x # -1) => Includes(valid, Sub(a, x))
                /\ IF p < Len(scans) THEN scans[p + 1][1] = next
                   ELSE next >= Len(word)

AOrAB == <<"a", "|", "(", "a", "b", ")">>

C8_Witness ==
    /\ pc = "done"
    /\ op = "FindAll"
    /\ regex = AOrAB
    /\ word = <<"a", "a", "b", "a", "b", "b">>
    /\ Accepts(<<"a">>)
    /\ Accepts(<<"a", "b">>)
    /\ scans = << <<0, 0>>, <<1, 2>>, <<3, 4>>, <<5, -1>> >>

\* The substrings FindAll matched, in the order of the scan.
Matched ==
    LET hits == Pick(scans, {p \in 1..Len(scans) : scans[p][2] # -1})
    IN  [p \in 1..Len(hits) |-> Sub(hits[p][1], hits[p][2])]

FirstMatch(w) ==
    CHOOSE p \in 1..Len(Matched) :
        Matched[p] = w /\ \A q \in 1..(p - 1) : Matched[q] # w

\* C9: the array FindAll returns holds every substring matched once, in the
\* order in which the substrings were first matched.
C9_Deduplicated ==
    (pc = "done" /\ op = "FindAll" /\ threw = "") =>
        /\ \A p, q \in 1..Len(valid) : p # q => valid[p] # valid[q]
        /\ {valid[p] : p \in 1..Len(valid)} = {Matched[p] : p \in 1..Len(Matched)}
        /\ \A p, q \in 1..Len(valid) :
              p < q => FirstMatch(valid[p]) < FirstMatch(valid[q])

C9_Witness ==
    /\ pc = "done"
    /\ op = "FindAll"
    /\ regex = AOrAB
    /\ Matched = << <<"a">>, <<"a", "b">>, <<"a", "b">> >>
    /\ valid = << <<"a">>, <<"a", "b">> >>

\* The states of the DFA reachable from the states of S.
RECURSIVE Reachable(_)
Reachable(S) ==
    LET T == S \cup UNION {{dfa.transitionTable[q][k] :
                               k \in (DOMAIN dfa.transitionTable[q]) \ {"start", "end"}} :
                           q \in S}
    IN  IF T = S THEN S ELSE Reachable(T)

\* An accepting state can be reached from q.
Live(q) == \E r \in Reachable({q}) : dfa.transitionTable[r]["end"]

Total(q) ==
    \A k \in 1..Len(Symbols(nfa)) : Symbols(nfa)[k] \in DOMAIN dfa.transitionTable[q]

TableClosed ==
    \A q \in DOMAIN dfa.transitionTable :
        \A k \in (DOMAIN dfa.transitionTable[q]) \ {"start", "end"} :
            dfa.transitionTable[q][k] \in DOMAIN dfa.transitionTable

\* C11: on a finished DFA, IsValidWord and FindAll return for every word (the
\* empty word and words with symbols outside the alphabet included): no
\* exception is raised, and no transition leads to a state without a row.
C11_NeverThrows ==
    pc = "done" =>
        /\ 0 \in DOMAIN dfa.transitionTable
        /\ TableClosed
        /\ (op # "none") => (threw = "")

C11_Witness ==
    /\ pc = "done"
    /\ regex = AOrAB
    /\ op = "FindAll"
    /\ word = <<"a", "b", "c">>
    /\ valid = << <<"a", "b">> >>
    /\ threw = ""
    /\ IsValidWord(dfa.transitionTable, <<>>) = [ret |-> FALSE, threw |-> ""]

\* The patterns x{a,b} whose second bound is below the first.
InvertedCounts ==
    LET lower(a) == {<<"{">> \o Count(a) \o <<",">> \o Count(b) \o <<"}">> :
                        b \in 0..(a - 1)}
    IN  {<<x>> \o c : x \in Literals, c \in UNION {lower(a) : a \in 1..MaxCount}}

\* C12: a pattern with a count {a,b}, b < a, fails in the tokenizer with
\* "PARSE ERROR": no token array is returned, no NFA and no DFA is built.
C12_InvertedCount ==
    regex \in InvertedCounts =>
        /\ pc \in {"start", "error"}
        /\ (pc = "error") => (threw = "PARSE ERROR")
        /\ tokens = <<>> /\ regexTree = <<>>
        /\ nfa = NewNFA /\ dfa = NewDFA /\ mappings = 0

C12_Witness ==
    /\ regex = <<"a", "{", "3", ",", "1", "}">>
    /\ regex \in InvertedCounts
    /\ pc = "error"
    /\ threw = "PARSE ERROR"

\* C13: when the expand and merge loop of the tree builder has used its ten
\* passes and more than one top-level token remains, compilation fails: no
\* matcher is produced from a token array that is not a single root.
C13_ConvergenceError ==
    pc = "done" => Len(regexTree) = 1

\* Every expression token of the tree t has the range (1,1) or (0,-1).
RECURSIVE RangesResolved(_)
RangesResolved(t) ==
    /\ (t.type = "expr") => (t.repetitions \in {<<1, 1>>, <<0, -1>>})
    /\ \A k \in 1..Len(t.kids) : RangesResolved(t.kids[k])

\* C14: the tree ParseTokens returns for a pattern that compiles has a single
\* root, and every expression token in it, the root included, has the range
\* (1,1) or (0,-1).
C14_ResolvedTree ==
    pc = "done" =>
        \A k \in 1..Len(regexTree) : k = 1 /\ RangesResolved(regexTree[k])

\* C15: for every character c, the special symbols and the backslash
\* included, the tokenizer turns \c into one character token of value c and
\* range (1,1); after a literal a, into that token after the token of a.
C15_Escape ==
    \A c \in EscapeChars :
        /\ (regex = <<"\\", c>> /\ pc # "start") =>
                (pc # "error" /\ tokens = <<Token("char", c, <<1, 1>>)>>)
        /\ (regex = <<"a", "\\", c>> /\ pc # "start") =>
                (pc # "error" /\ tokens = <<Token("char", "a", <<1, 1>>),
                                            Token("char", c, <<1, 1>>)>>)

\* The range a count written A, or A,B, stands for: no first bound is 0, no
\* comma repeats the first bound, no second bound after a comma is -1.
RangeOf(A, comma, B) ==
    LET lo == IF A = <<>> THEN 0 ELSE DigitVal(A[1])
    IN  <<lo, IF ~comma THEN lo ELSE IF B = <<>> THEN -1 ELSE DigitVal(B[1])>>

Ordered(r) == r[2] = -1 \/ r[1] <= r[2]

\* The tokenizer has returned the tokens of the pattern.
Tokenized == pc \notin {"start", "error"}

\* C16: the tokenizer sets on the preceding token the range (0,-1) for *,
\* (1,-1) for +, (0,1) for ?, (a,b) for {a,b}, (a,-1) for {a,}, (0,b) for
\* {,b}, (a,a) for {a}, (0,-1) for {,} and (0,0) for {}; a count with a second
\* comma is an error.
C16_Quantifiers ==
    /\ (Len(regex) >= 3 /\ regex[2] = "{" /\ pc # "start") =>
        /\ \A x \in Literals, A \in CountStrings :
            (regex = <<x, "{">> \o A \o <<"}">>) =>
                (Tokenized /\ tokens = <<Token("char", x, RangeOf(A, FALSE, <<>>))>>)
        /\ \A x \in Literals, A \in CountStrings, B \in CountStrings :
            (/\ regex = <<x, "{">> \o A \o <<",">> \o B \o <<"}">>
             /\ Ordered(RangeOf(A, TRUE, B))) =>
                (Tokenized /\ tokens = <<Token("char", x, RangeOf(A, TRUE, B))>>)
        /\ \A A \in CountStrings, B \in CountStrings, C \in CountStrings :
            (regex = <<"a", "{">> \o A \o <<",">> \o B \o <<",">> \o C \o <<"}">>) =>
                (pc = "error" /\ threw = "ERROR" /\ tokens = <<>>)
    /\ \A x \in {"a", "b"}, y \in {"a", "b"} :
        /\ (regex = <<x, y, "*">> /\ pc # "start") =>
            (Tokenized /\ tokens = <<Token("char", x, <<1, 1>>),
                                     Token("char", y, <<0, -1>>)>>)
        /\ (regex = <<x, y, "+">> /\ pc # "start") =>
            (Tokenized /\ tokens = <<Token("char", x, <<1, 1>>),
                                     Token("char", y, <<1, -1>>)>>)
        /\ (regex = <<x, y, "?">> /\ pc # "start") =>
            (Tokenized /\ tokens = <<Token("char", x, <<1, 1>>),
                                     Token("char", y, <<0, 1>>)>>)
    /\ (regex = <<"b", "a", "{", "2", ",", "4", "}">> /\ pc # "start") =>
            (Tokenized /\ tokens = <<Token("char", "b", <<1, 1>>),
                                     Token("char", "a", <<2, 4>>)>>)

C16_Witness ==
    /\ regex = <<"1", "{", ",", "2", "}">>
    /\ pc = "done"
    /\ tokens = <<Token("char", "1", <<0, 2>>)>>

\* C17: the DFA has exactly one state flagged start, before dead-state
\* elimination (once the flags are set), during it and after it.
C17_OneStart ==
    pc \in {"flagged", "simplify", "done"} => Cardinality(StartStates) = 1

\* For ab a dead state is removed and the accepting state is renumbered from
\* 3 to 2.
C17_Witness ==
    /\ pc = "done"
    /\ regex = <<"a", "b">>
    /\ DOMAIN StateMapping = 0..3
    /\ mappings = 4
    /\ dfa.transitionTable[2]["end"]
    /\ StartStates = {0}

\* The dead states of the DFA: no accepting state can be reached from them.
DeadStates == {q \in DOMAIN dfa.transitionTable : ~Live(q)}

\* C18: when SimplifyDeadStates has returned at most one state of the DFA is
\* dead (not accepting, and no accepting state can be reached from it).
C18_OneDead ==
    pc = "done" => Cardinality(DeadStates) <= 1

\* For a|(ab) there were two dead states before SimplifyDeadStates: the state
\* of the empty set, and the state AddDeadState made.
C18_Witness ==
    /\ pc = "done"
    /\ regex = AOrAB
    /\ StateMapping[2] = <<>>
    /\ mappings = 4
    /\ DeadStates = {3}

\* C19: eClosure returns on every NFA the compiler makes, also on one with
\* a cycle of epsilon transitions: construction never ends with the call
\* stack exhausted ("RangeError") by eClosure calling itself without end.
C19_eClosureTerminates ==
    pc = "error" => threw # "RangeError"

\* C20: a star on a single literal is honoured: for literals x and y the
\* matcher of xy* accepts x, xy and xyy.
C20_LeafStar ==
    \A x \in {"a", "b"}, y \in {"a", "b"} :
        (pc = "done" /\ regex = <<x, y, "*">>) =>
            /\ Accepts(<<x>>)
            /\ Accepts(<<x, y>>)
            /\ Accepts(<<x, y, y>>)

\* C21: without parentheses concatenation binds tighter than alternation:
\* for literals x, y, z the matcher of xy|z accepts xy and z and nothing
\* else, the matcher of x|yz accepts x and yz and nothing else.
C21_Precedence ==
    \A x \in Literals, y \in Literals, z \in Literals :
        (pc = "done" /\ op = "IsValidWord") =>
            /\ (regex = <<x, y, "|", z>>) => (ret <=> word \in {<<x, y>>, <<z>>})
            /\ (regex = <<x, "|", y, z>>) => (ret <=> word \in {<<x>>, <<y, z>>})

\* The NFA BuildNFA returns for the pattern E.
NFAOf(E) == BuildNFA(First(BuildParseTree(E)))

\* C22: a further pair of parentheses without a quantifier changes nothing:
\* the matcher of (E) accepts a word exactly when the matcher of E does (the
\* NFA of E has a run over the word), also when E ends in a quantifier.
C22_ExtraParentheses ==
    \A E \in ParenBodies :
        (pc = "done" /\ op = "IsValidWord" /\ regex = <<"(">> \o E \o <<")">>) =>
            (ret <=> HasRun(NFAOf(E), word))


\* The leaf values of a token tree, left to right.
RECURSIVE Leaves(_), LeavesOf(_)
Leaves(t) == IF t.vk = "sym" THEN <<t.sym>> ELSE LeavesOf(t.kids)

LeavesOf(ts) == IF ts = <<>> THEN <<>> ELSE Leaves(Head(ts)) \o LeavesOf(Tail(ts))

\* n copies of the leaves of (empty | x).
RECURSIVE Optionals(_, _)
Optionals(x, n) == IF n <= 0 THEN <<>> ELSE <<Null, "|", x>> \o Optionals(x, n - 1)

\* The text of the count {m,n}.
Braces(m, n) == <<"{">> \o Count(m) \o <<",">> \o Count(n) \o <<"}">>

\* C23: a token with the range (min,max), 0 < min < max, that stands next to
\* other tokens is replaced by ExpandExpressions with one token of range (1,1)
\* made of min copies of the token followed by max-min copies of
\* (empty | token), and the matcher accepts exactly min to max repetitions.
C23_ProperRange ==
    \A r \in ProperRanges :
        LET min      == r[1]
            max      == r[2]
            expanded == ExpandExpressions(CharsToExprs(tokens))
            copies   == Repeat("a", min) \o Optionals("a", max - min)
            times    == {Repeat("a", k) : k \in min..max}
        IN
        /\ (pc = "tokenized" /\ regex = <<"b", "a">> \o Braces(min, max)) =>
              /\ Len(expanded) = 2
              /\ expanded[2].repetitions = <<1, 1>>
              /\ Leaves(expanded[2]) = copies
        /\ (pc = "tokenized" /\ regex = <<"a">> \o Braces(min, max) \o <<"b">>) =>
              /\ Len(expanded) = 2
              /\ expanded[1].repetitions = <<1, 1>>
              /\ Leaves(expanded[1]) = copies
        /\ (pc = "done" /\ op = "IsValidWord"
                /\ regex = <<"b", "a">> \o Braces(min, max)) =>
              (ret <=> word \in {<<"b">> \o t : t \in times})
        /\ (pc = "done" /\ op = "IsValidWord"
                /\ regex = <<"a">> \o Braces(min, max) \o <<"b">>) =>
              (ret <=> word \in {t \o <<"b">> : t \in times})

C23_Witness ==
    /\ pc = "done" /\ op = "IsValidWord" /\ ret
    /\ regex = <<"b", "a">> \o Braces(2, 3)
    /\ word = <<"b", "a", "a", "a">>


\* The elements of an array, and the array backwards.
Elements(a) == {a[k] : k \in 1..Len(a)}

Backwards(a) == [k \in 1..Len(a) |-> a[Len(a) + 1 - k]]

\* The call GetMapping(nfaStates) on the subset construction as it stands
\* returns the id of the stored subset with the same elements when there is
\* one, and changes nothing; otherwise it stores nfaStates under the next id.
GetMappingFinds(nfaStates) ==
    LET got  == GetMapping(This, nfaStates)
        same == {id \in 0..(mappings - 1) :
                    Elements(StateMapping[id]) = Elements(nfaStates)}
    IN  IF same # {}
        THEN got.id \in same /\ got.sc = This
        ELSE /\ got.id = mappings
             /\ got.sc.mappings = mappings + 1
             /\ got.sc.StateMapping = Put(StateMapping, mappings, nfaStates)

\* The argument of the call of GetMapping the innermost Recursive makes next.
NextStates ==
    eClosure(nfa, Move(nfa, StateMapping[stack[Len(stack)].state],
                       Symbols(nfa)[stack[Len(stack)].symbol]))

\* C24: throughout Build the ids are 0..mappings-1, every stored subset is
\* free of duplicates and no two ids hold the same set; GetMapping returns the
\* existing id exactly when its argument has the elements of a stored subset,
\* in any order, and otherwise allocates the next id.
C24_Mappings ==
    (pc \in {"build", "built"}) =>
        /\ DOMAIN StateMapping = 0..(mappings - 1)
        /\ \A id \in 0..(mappings - 1) :
              /\ Cardinality(Elements(StateMapping[id])) = Len(StateMapping[id])
              /\ GetMappingFinds(Backwards(StateMapping[id]))
        /\ \A id \in 0..(mappings - 1), other \in 0..(mappings - 1) :
              (Elements(StateMapping[id]) = Elements(StateMapping[other]))
                  => (id = other)
        /\ (pc = "build" /\ stack # <<>>
                /\ stack[Len(stack)].symbol <= Len(Symbols(nfa))) =>
              /\ Cardinality(Elements(NextStates)) = Len(NextStates)
              /\ GetMappingFinds(NextStates)

\* In the middle of Build, with three subsets or more stored, the closure
\* about to be looked up has the elements of a stored subset.
C24_Witness ==
    /\ pc = "build" /\ stack # <<>> /\ mappings >= 3
    /\ stack[Len(stack)].symbol <= Len(Symbols(nfa))
    /\ \E id \in 0..(mappings - 1) :
          /\ Elements(StateMapping[id]) = Elements(NextStates)
          /\ Len(NextStates) >= 2


\* C25: for every state of the DFA, states on cycles included, IsDeadState
\* returns, and it returns true exactly when no accepting state (the state
\* itself included) can be reached from the state.
C25_IsDeadState ==
    (pc \in {"simplify", "done"} /\ op = "none") =>
        \A s \in DOMAIN dfa.transitionTable :
            LET r == IsDeadState(dfa.transitionTable, s, Symbols(nfa))
            IN  /\ r.threw = ""
                /\ r.dead <=> ~Live(s)

\* In the DFA of (a|b)*ab a state that is not accepting loops to itself on the
\* first symbol looked at and reaches an accepting state on the second.
C25_Witness ==
    /\ pc = "done" /\ op = "none"
    /\ regex = <<"(", "a", "|", "b", ")", "*", "a", "b">>
    /\ \E s \in DOMAIN dfa.transitionTable :
          LET row  == dfa.transitionTable[s]
              keys == OwnSymbols(row, Symbols(nfa))
          IN  /\ ~row["end"] /\ Len(keys) > 1 /\ row[keys[1]] = s
              /\ ~IsDeadState(dfa.transitionTable, s, Symbols(nfa)).dead


\* The scan of ValidWordLength without its test for dead states: it goes on
\* until a transition is missing or the word ends.
RECURSIVE PlainScan(_, _, _, _)
PlainScan(w, state, lastValid, n) ==
    IF n >= Len(w) THEN lastValid
    ELSE IF state \notin DOMAIN dfa.transitionTable
              \/ w[n + 1] \notin DOMAIN dfa.transitionTable[state]
    THEN lastValid
    ELSE LET next == dfa.transitionTable[state][w[n + 1]]
         IN  PlainScan(w, next,
                       IF dfa.transitionTable[next]["end"] THEN n ELSE lastValid,
                       n + 1)

\* C26: stopping at a dead state never changes the result of ValidWordLength:
\* from every start it returns what the scan that ignores dead states returns.
C26_DeadStop ==
    (pc = "done" /\ op = "FindAll") =>
        /\ \A start \in 0..(Len(word) - 1) :
              ValidWordLength(dfa.transitionTable, word, Symbols(nfa), start)
                  = [ret |-> PlainScan(word, 0, -1, start), threw |-> ""]
        /\ \A k \in 1..Len(scans) :
              scans[k][2] = PlainScan(word, 0, -1, scans[k][1])

\* FindAll of aab for the pattern ab: the scan from 0 stops at the dead state
\* reached by the second a, with the b still unread.
C26_Witness ==
    /\ pc = "done" /\ op = "FindAll"
    /\ regex = <<"a", "b">>
    /\ word = <<"a", "a", "b">>
    /\ scans = << <<0, -1>>, <<1, 2>> >>
    /\ valid = << <<"a", "b">> >>
    /\ IsDeadState(dfa.transitionTable,
                   dfa.transitionTable[dfa.transitionTable[0]["a"]]["a"],
                   Symbols(nfa)).dead


\* The table `after` is the table `before` without the state `removed`: the
\* ids are 0..count-2, the state that had the id q+1 > removed has the id q,
\* with its flags and its transitions, and every transition follows its
\* target: an edge into the removed state leads to the sink, now count-2.
Removed(before, after, removed, count) ==
    LET old(q) == IF q < removed THEN q ELSE q + 1
        new(t) == IF t = removed THEN count - 2
                  ELSE IF t > removed THEN t - 1 ELSE t
    IN  /\ DOMAIN after = 0..(count - 2)
        /\ \A q \in DOMAIN after :
              /\ DOMAIN after[q] = DOMAIN before[old(q)]
              /\ \A k \in DOMAIN after[q] :
                    after[q][k] = IF k \in {"start", "end"} THEN before[old(q)][k]
                                  ELSE new(before[old(q)][k])
              /\ \A k \in (DOMAIN after[q]) \ {"start", "end"} :
                    after[q][k] \in 0..(count - 2)

\* C27: after every call of RemoveState the ids of the DFA are 0..mappings-1,
\* every transition leads to one of them, every edge that led to the removed
\* state leads to the sink, and the other states keep their flags and their
\* transitions under their new ids.
C27_RemoveState ==
    /\ (pc = "simplify" /\ i < mappings - 1
            /\ IsDeadState(dfa.transitionTable, i, Symbols(nfa)).dead) =>
          LET sc == RemoveState(This, i, mappings - 1)
          IN  /\ sc.threw = ""
              /\ sc.mappings = mappings - 1
              /\ Removed(dfa.transitionTable, sc.transitionTable, i, mappings)
    /\ (pc \in {"simplify", "done"}) =>
          /\ DOMAIN dfa.transitionTable = 0..(mappings - 1)
          /\ TableClosed

\* For a|(ab) the state of the empty set, 2, has been removed: the state that
\* was 3 is now 2, the sink is 3, and an edge leads to the sink.
C27_Witness ==
    /\ pc = "simplify"
    /\ regex = AOrAB
    /\ i = 3 /\ mappings = 4
    /\ StateMapping[2] = <<>>
    /\ DOMAIN dfa.transitionTable[3] = {"start", "end"}
    /\ dfa.transitionTable[2]["end"]
    /\ \E q \in 0..2 : \E k \in (DOMAIN dfa.transitionTable[q]) \ {"start", "end"} :
          dfa.transitionTable[q][k] = 3


\* The arrays ExpandExpressions passes to TokenArrayToTree while it expands
\* the array arr: one for every expression that is not pushed as it is, up to
\* the first token that throws.
NestedCalls(arr) ==
    {NewExpressions(arr[n]) :
        n \in {k \in 1..Len(arr) :
                  /\ ~PushedAsIs(arr[k])
                  /\ ~HasThrown(NewExpressions(arr[k]))
                  /\ \A j \in 1..(k - 1) : ExpandToken(arr[j]).type # "error"}}

\* The invocations of TokenArrayToTree that the invocation on arr, itself at
\* the given depth, gives rise to: the argument and the depth of each.
RECURSIVE Invocations(_, _)
Invocations(arr, depth) ==
    LET passes   == TreePasses(arr, MaxRepeats)
        expanded == {passes[j] : j \in 1..(Len(passes) - 1)}
    IN  {[tokens |-> arr, depth |-> depth]}
        \cup UNION {Invocations(arg, depth + 1) :
                        arg \in UNION {NestedCalls(a) : a \in expanded}}

\* The number of expand+merge passes of the invocation on arr.
Passes(arr) == Len(TreePasses(arr, MaxRepeats)) - 1

\* C28: TokenArrayToTree terminates on the tokens of every pattern: every
\* invocation, nested ones included, makes at most 10 passes, and the
\* invocations nest at most three deep.
C28_Terminates ==
    (pc = "tokenized") =>
        \A call \in Invocations(CharsToExprs(tokens), 1) :
            /\ Passes(call.tokens) <= 10
            /\ call.depth <= 3

\* The pattern |a+: the outer invocation uses up its ten passes without
\* reaching one token, and a followed by a* is merged by a nested invocation
\* whose own expansion calls TokenArrayToTree a third time.
C28_Witness ==
    /\ pc = "tokenized"
    /\ regex = <<"|", "a", "+">>
    /\ \E call \in Invocations(CharsToExprs(tokens), 1) :
          call.depth = 1 /\ Passes(call.tokens) = 10
    /\ \E call \in Invocations(CharsToExprs(tokens), 1) :
          call.depth = 2 /\ Passes(call.tokens) >= 1
    /\ \E call \in Invocations(CharsToExprs(tokens), 1) : call.depth = 3


\* C29: a pattern that ends while a count opened by { is not closed (a{2) does
\* not compile: TokenizeRegex throws, and no matcher is made.
C29_OpenCount ==
    (regex \in OpenCounts) => (pc \in {"start", "error"})


\* The transitions of an NFA: <<p, v, k, q>> for the k-th target q of state p
\* on the value v.
Edges(f) ==
    UNION {UNION {{<<p, v, k, f.transitionTable[p][v][k]>> :
                      k \in 1..Len(f.transitionTable[p][v])} :
                  v \in DOMAIN f.transitionTable[p]} :
           p \in DOMAIN f.transitionTable}

\* The transitions of f with both ends moved by start.
Shifted(f, start) == {<<e[1] + start, e[2], e[3], e[4] + start>> : e \in Edges(f)}

\* The compositions BuildNFA makes for the token and below it: the operation,
\* its arguments with the offsets at which AddTransitions copies them, the
\* number of transitions the operation adds itself, and the NFA returned.
RECURSIVE Compositions(_)
Compositions(token) ==
    IF token.type = "expr" /\ token.vk = "arr" /\ Len(token.kids) \in {2, 3}
    THEN LET a  == BuildNFA(token.kids[1])
             b  == BuildNFA(token.kids[Len(token.kids)])
             ab == IF Len(token.kids) = 2 THEN And(a, b) ELSE Or(a, b)
         IN  Compositions(token.kids[1])
             \cup Compositions(token.kids[Len(token.kids)])
             \cup (IF a.threw # "" \/ b.threw # "" THEN {}
                   ELSE {IF Len(token.kids) = 2
                         THEN [of |-> "And", parts |-> <<a, b>>,
                               at |-> <<0, a.end + 1>>, own |-> 1, nfa |-> ab]
                         ELSE [of |-> "Or", parts |-> <<a, b>>,
                               at |-> <<1, a.end + 2>>, own |-> 4, nfa |-> ab]}
                        \cup (IF token.repetitions[2] = -1
                              THEN {[of |-> "Asterisk", parts |-> <<ab>>,
                                     at |-> <<1>>, own |-> 4, nfa |-> Asterisk(ab)]}
                              ELSE {}))
    ELSE {}

\* The leaves of the token tree, as BuildNFA meets them.
RECURSIVE LeafTokens(_)
LeafTokens(token) ==
    IF token.type = "expr" /\ token.vk = "arr"
    THEN IF Len(token.kids) \in {2, 3}
         THEN LeafTokens(token.kids[1]) \cup LeafTokens(token.kids[Len(token.kids)])
         ELSE {}
    ELSE {token}

\* The NFA fragments made while BuildNFA works on the token.
Fragments(token) ==
    {BuildNFA(leaf) : leaf \in LeafTokens(token)}
    \cup {c.nfa : c \in Compositions(token)}

\* State 0 is entered by no transition, f.end is the largest id and has no
\* transition, and every other state lies on a way from 0 to f.end: it is
\* entered by a transition and left by one.
WellFormed(f) ==
    /\ f.threw = ""
    /\ f.end >= 1
    /\ \A e \in Edges(f) :
          /\ e[1] \in 0..(f.end - 1)
          /\ e[4] \in 1..f.end
    /\ \A q \in 1..f.end : \E e \in Edges(f) : e[4] = q
    /\ \A q \in 0..(f.end - 1) : \E e \in Edges(f) : e[1] = q

\* C30: every NFA fragment that Singular, And, Or and Asterisk return while
\* BuildNFA works has state 0 as its only start, entered by no transition, and
\* its end as its only accepting state, the largest id, left by no transition;
\* the fragment made of parts holds every transition of every part, moved by
\* the part's offset, and nothing else but the transitions the operation adds.
C30_Fragments ==
    (pc = "nfa") =>
        /\ nfa \in Fragments(regexTree[1])
        /\ \A f \in Fragments(regexTree[1]) : WellFormed(f)
        /\ \A c \in Compositions(regexTree[1]) :
              /\ \A n \in 1..Len(c.parts) :
                    Shifted(c.parts[n], c.at[n]) \subseteq Edges(c.nfa)
              /\ Cardinality(Edges(c.nfa)) =
                    c.own + Cardinality(Edges(c.parts[1]))
                          + (IF Len(c.parts) = 2
                             THEN Cardinality(Edges(c.parts[2])) ELSE 0)

\* The NFA of (a|b)*a: a concatenation of a star of an alternation and a
\* leaf.
C30_Witness ==
    /\ pc = "nfa"
    /\ regex = <<"(", "a", "|", "b", ")", "*", "a">>
    /\ {c.of : c \in Compositions(regexTree[1])} = {"And", "Or", "Asterisk"}
    /\ nfa.end = 9

=============================================================================
